---- MODULE Spec2Model ----
(***************************************************************************)
(* Bi-directional synchronisation of DNS A records between two views of    *)
(* one zone (sync_dns_zones.py).  The directory service is the variable    *)
(* dns: the A records of the zone over all views, as the record listing    *)
(* returns them.  A pass (sync_records_one_way) is executed in steps: the  *)
(* two listings, then one step per source record, then the return.  Every  *)
(* HTTP request ends in one of three ways (_make_request): "ok", "fail"    *)
(* (a RequestException, caught, None returned) or "raise" (an exception    *)
(* that is no RequestException, raised while the answer is decoded, after  *)
(* the service has served the request).                                    *)
(*                                                                         *)
(* Strings the code searches (comments, view names) are sequences of       *)
(* tokens, so that the substring test of _is_synced_from_view is computed. *)
(***************************************************************************)
EXTENDS Integers, Sequences, FiniteSets, TLC

VARIABLES
    config,          \* InfobloxConfig: source_view, target_view
    dns,             \* the service's A records of the zone, all views
    next_id,         \* the id the service gives the next created record
    now,             \* the clock read by _get_sync_marker
    pc,              \* "idle", "loop", "returned", "done", "raised"
    run,             \* position in run_sync: "none", "pass1", "pass2"
    pass,            \* source_view, target_view of the executing pass
    source_records,  \* sync_records_one_way: the source listing
    target_lookup,   \* sync_records_one_way: key -> target record
    idx,             \* position of the for loop in source_records
    synced_count,    \* sync_records_one_way: synced_count
    count1,          \* run_sync: count1, -1 while unassigned
    summary,         \* run_sync: the logged totals, <<>> while none
    fetched,         \* outcome of the two listings of the pass
    calls,           \* create/update calls of the pass, in order
    outcome,         \* what the pass did with each source record
    pre,             \* dns when the pass began
    prev,            \* the pass before this one
    started,         \* passes begun by the current run_sync
    written,         \* records the passes wrote: id and the view copied from
    faults,          \* requests that did not end "ok" so far
    ncalls           \* invocations so far

vars == <<config, dns, next_id, now, pc, run, pass, source_records,
          target_lookup, idx, synced_count, count1, summary, fetched, calls,
          outcome, pre, prev, started, written, faults, ncalls>>

-----------------------------------------------------------------------------
(* Bounds *)

MaxCalls == 2      \* invocations (run_sync or sync_records_one_way)
MaxFaults == 1     \* requests that fail or raise in one behaviour

-----------------------------------------------------------------------------
(* Strings *)

Contains(s, t) ==
    \E k \in 0..(Len(s) - Len(t)) : SubSeq(s, k + 1, k + Len(t)) = t

zone_name == <<"zone.">>

ViewConfigs ==
    { [source_view |-> <<"A">>, target_view |-> <<"B">>],
      [source_view |-> <<"A">>, target_view |-> <<"A", "9">>] }

Addresses == {"10.0.0.1", "10.0.0.2"}

Apex == <<>>
Names == {Apex, <<"h">>}

ReqOutcomes == {"ok", "fail", "raise"}

-----------------------------------------------------------------------------
(* Provenance marker *)

\* variant: the view name does not follow the tag
GetSyncMarker_TagSplit(source_view, time, created_timestamp) ==
    <<"Synced from ", "view ">> \o source_view \o <<" on ", ToString(time)>>
        \o (IF created_timestamp # <<>>
            THEN <<", created: ">> \o created_timestamp ELSE <<>>)

GetSyncMarker(source_view, time, created_timestamp) ==
    LET created_info == IF created_timestamp # <<>>
                        THEN <<", created: ">> \o created_timestamp
                        ELSE <<>>
    IN  <<"Synced from ">> \o source_view \o <<" on ", ToString(time)>>
            \o created_info

IsSyncedFromView(comment, view_name) ==
    IF comment = <<>>
    THEN FALSE
    ELSE Contains(comment, <<"Synced from ">> \o view_name)

ExtractRecordKey(record) ==
    IF record.name_in_zone = <<>> THEN <<"@">> ELSE record.name_in_zone

-----------------------------------------------------------------------------
(* The directory service, as the client's requests read and change it *)

Max(S) == CHOOSE m \in S : \A n \in S : n <= m

Cost(o) == IF o = "ok" THEN 0 ELSE 1

\* variant: the listing is not narrowed to the client's view
GetARecords_AllViews(d, view_name, o) ==
    IF o = "ok"
    THEN [none |-> FALSE, records |-> d]
    ELSE [none |-> FALSE, records |-> <<>>]

\* the A records of the zone that carry the client's view_name; [] when the
\* request failed.  The result is never None.
GetARecords(d, view_name, o) ==
    LET InView(r) == r.view_name = view_name
    IN  IF o = "ok"
        THEN [none |-> FALSE, records |-> SelectSeq(d, InView)]
        ELSE [none |-> FALSE, records |-> <<>>]

\* get_view_id: the id of the view, None when the request failed
GetViewId(view_name, o) ==
    IF o = "ok" THEN <<"id of ">> \o view_name ELSE <<>>

AbsoluteName(name_in_zone, zone) ==
    IF name_in_zone # <<>> /\ name_in_zone[Len(name_in_zone)] # "."
    THEN name_in_zone \o zone
    ELSE zone

\* variant: record_data without the comment
CreatedRecord_NoComment(id, view_id, absolute_name, ip_address, description) ==
    [id           |-> id,
     view_name    |-> Tail(view_id),
     name_in_zone |-> SubSeq(absolute_name, 1,
                             Len(absolute_name) - Len(zone_name)),
     address      |-> ip_address,
     comment      |-> <<>>,
     created_at   |-> <<"c">>]

\* the service's record for a POST of absolute_name_spec in the view
CreatedRecord(id, view_id, absolute_name, ip_address, description) ==
    [id           |-> id,
     view_name    |-> Tail(view_id),
     name_in_zone |-> SubSeq(absolute_name, 1,
                             Len(absolute_name) - Len(zone_name)),
     address      |-> ip_address,
     comment      |-> description,
     created_at   |-> <<"c">>]

\* variant: update_data without the comment
UpdatedRecords_AddressOnly(d, record_id, ip_address, description) ==
    [j \in DOMAIN d |->
        IF d[j].id = record_id
        THEN [d[j] EXCEPT !.address = ip_address]
        ELSE d[j]]

\* variant: the record is replaced by a new one instead of patched
UpdatedRecords_Replace(d, record_id, ip_address, description) ==
    LET Others(r) == r.id # record_id
        Old(r)    == r.id = record_id
        old       == SelectSeq(d, Old)
    IN  SelectSeq(d, Others) \o
            [j \in DOMAIN old |->
                [old[j] EXCEPT !.id = record_id + 100,
                               !.address = ip_address,
                               !.comment = description]]

\* the service's records after a PATCH of record/{record_id}
UpdatedRecords(d, record_id, ip_address, description) ==
    [j \in DOMAIN d |->
        IF d[j].id = record_id
        THEN [d[j] EXCEPT !.address = ip_address, !.comment = description]
        ELSE d[j]]

-----------------------------------------------------------------------------
(* sync_records_one_way *)

\* variant: the lookup is keyed by name_in_zone as listed
BuildTargetLookup_RawName(target_records) ==
    IF target_records = <<>>
    THEN <<>>
    ELSE [k \in {target_records[j].name_in_zone :
                    j \in DOMAIN target_records} |->
            target_records[Max({j \in DOMAIN target_records :
                                target_records[j].name_in_zone = k})]]

BuildTargetLookup(target_records) ==
    IF target_records = <<>>
    THEN <<>>
    ELSE [k \in {ExtractRecordKey(target_records[j]) :
                    j \in DOMAIN target_records} |->
            target_records[Max({j \in DOMAIN target_records :
                                ExtractRecordKey(target_records[j]) = k})]]

\* variant: without the loop guard
Classify_NoLoopGuard(source_record, lookup, source_view, target_view) ==
    IF ExtractRecordKey(source_record) \in DOMAIN lookup
    THEN LET target_record == lookup[ExtractRecordKey(source_record)]
         IN  IF source_record.address # target_record.address
             THEN IF IsSyncedFromView(target_record.comment, source_view)
                  THEN "UPDATE"
                  ELSE "CONFLICT"
             ELSE "NOOP"
    ELSE "CREATE"

\* variant: a differing target is updated whatever its comment
Classify_NoLineage(source_record, lookup, source_view, target_view) ==
    IF IsSyncedFromView(source_record.comment, target_view)
    THEN "SKIP"
    ELSE IF ExtractRecordKey(source_record) \in DOMAIN lookup
    THEN IF source_record.address # lookup[ExtractRecordKey(source_record)].address
         THEN "UPDATE"
         ELSE "NOOP"
    ELSE "CREATE"

\* variant: a source record the target lacks is passed over
Classify_NoCreate(source_record, lookup, source_view, target_view) ==
    IF IsSyncedFromView(source_record.comment, target_view)
    THEN "SKIP"
    ELSE IF ExtractRecordKey(source_record) \in DOMAIN lookup
    THEN LET target_record == lookup[ExtractRecordKey(source_record)]
         IN  IF source_record.address # target_record.address
             THEN IF IsSyncedFromView(target_record.comment, source_view)
                  THEN "UPDATE"
                  ELSE "CONFLICT"
             ELSE "NOOP"
    ELSE "NOOP"

\* variant: a differing target of the source's lineage is left as it is
Classify_NoUpdate(source_record, lookup, source_view, target_view) ==
    IF IsSyncedFromView(source_record.comment, target_view)
    THEN "SKIP"
    ELSE IF ExtractRecordKey(source_record) \in DOMAIN lookup
    THEN LET target_record == lookup[ExtractRecordKey(source_record)]
         IN  IF source_record.address # target_record.address
             THEN IF IsSyncedFromView(target_record.comment, source_view)
                  THEN "NOOP"
                  ELSE "CONFLICT"
             ELSE "NOOP"
    ELSE "CREATE"

\* variant: a target of the source's lineage is updated even when equal
Classify_AlwaysRefresh(source_record, lookup, source_view, target_view) ==
    IF IsSyncedFromView(source_record.comment, target_view)
    THEN "SKIP"
    ELSE IF ExtractRecordKey(source_record) \in DOMAIN lookup
    THEN LET target_record == lookup[ExtractRecordKey(source_record)]
         IN  IF IsSyncedFromView(target_record.comment, source_view)
             THEN "UPDATE"
             ELSE IF source_record.address # target_record.address
                  THEN "CONFLICT"
                  ELSE "NOOP"
    ELSE "CREATE"

\* the branch of the loop body taken for one source record
Classify(source_record, lookup, source_view, target_view) ==
    IF IsSyncedFromView(source_record.comment, target_view)
    THEN "SKIP"
    ELSE IF ExtractRecordKey(source_record) \in DOMAIN lookup
    THEN LET target_record == lookup[ExtractRecordKey(source_record)]
         IN  IF source_record.address # target_record.address
             THEN IF IsSyncedFromView(target_record.comment, source_view)
                  THEN "UPDATE"
                  ELSE "CONFLICT"
             ELSE "NOOP"
    ELSE "CREATE"

NoPass == [source_view |-> <<>>, target_view |-> <<>>]

AllOk(cs) == \A j \in DOMAIN cs : cs[j].res = "ok"

\* the create and update calls of a pass that returned False
FailedWrites(cs) ==
    {[op |-> cs[k].op, key |-> cs[k].key, address |-> cs[k].address] :
        k \in {n \in DOMAIN cs : cs[n].res = "fail"}}

\* run_sync has just ended, every request of its two passes succeeded, and
\* no view holds a key twice
EndedCleanRun ==
    /\ pc = "done"
    /\ prev.fetched = <<"ok", "ok">>
    /\ AllOk(prev.calls)
    /\ fetched = <<"ok", "ok">>
    /\ AllOk(calls)
    /\ \A i, j \in DOMAIN dns :
          ( /\ dns[i].view_name = dns[j].view_name
            /\ ExtractRecordKey(dns[i]) = ExtractRecordKey(dns[j]) ) => i = j

\* the pass that has just ended, as the next one finds it
LastPass ==
    [valid       |-> pass # NoPass,
     source_view |-> pass.source_view,
     target_view |-> pass.target_view,
     returned    |-> pc \in {"returned", "done"},
     fetched     |-> fetched,
     calls       |-> calls,
     keys        |-> [j \in DOMAIN outcome |->
                        ExtractRecordKey(source_records[j])],
     outcome     |-> outcome,
     synced_count |-> synced_count,
     after_clean |-> prev.after_clean \/ EndedCleanRun,
     failed      |-> FailedWrites(calls),
     before      |-> [valid       |-> prev.valid,
                      source_view |-> prev.source_view,
                      failed      |-> prev.failed]]

\* entry of sync_records_one_way: the two listings and the lookup
EnterPass(sv, tv) ==
    /\ \E os, ot \in ReqOutcomes :
          /\ os = "raise" => ot = "ok"
          /\ faults + Cost(os) + Cost(ot) <= MaxFaults
          /\ LET src    == GetARecords(dns, sv, os)
                 tgt    == GetARecords(dns, tv, ot)
                 raised == "raise" \in {os, ot}
                 isnone == src.none \/ tgt.none
             IN  /\ fetched' = <<os, IF os = "raise" THEN "none" ELSE ot>>
                 /\ faults' = faults + Cost(os) + Cost(ot)
                 /\ pc' = IF raised THEN "raised"
                          ELSE IF isnone THEN "returned" ELSE "loop"
                 /\ source_records' = IF os = "raise" THEN <<>>
                                      ELSE src.records
                 /\ target_lookup' = IF raised \/ isnone THEN <<>>
                                     ELSE BuildTargetLookup(tgt.records)
    /\ pass' = [source_view |-> sv, target_view |-> tv]
    /\ now' = now + 1
    /\ idx' = 1
    /\ synced_count' = 0
    /\ calls' = <<>>
    /\ outcome' = <<>>
    /\ pre' = dns
    /\ prev' = LastPass
    /\ UNCHANGED <<config, dns, next_id, written>>

\* variant: every call is counted, whatever it returned
Counted_EveryCall(count, res) == count + 1

\* synced_count after a call that ended res
Counted(count, res) == IF res = "ok" THEN count + 1 ELSE count

\* variant: the loop is left at the first call that returns False
AfterCall_BreakOnFailure(res) ==
    IF res = "raise" THEN "raised" ELSE IF res = "fail" THEN "returned" ELSE "loop"

\* where the pass is after a call that ended res: a call that returned False
\* is logged and the loop goes on, an exception leaves the pass
AfterCall(res) == IF res = "raise" THEN "raised" ELSE "loop"

\* one iteration of the for loop over source_records
ProcessRecord ==
    /\ pc = "loop"
    /\ idx <= Len(source_records)
    /\ LET source_record  == source_records[idx]
           source_key     == ExtractRecordKey(source_record)
           source_ip      == source_record.address
           source_created == source_record.created_at
           class          == Classify(source_record, target_lookup,
                                      pass.source_view, pass.target_view)
           new_comment    == GetSyncMarker(pass.source_view, now,
                                           source_created)
       IN  \E ov, op \in ReqOutcomes :
             /\ class \in {"SKIP", "NOOP", "CONFLICT"} => ov = "ok" /\ op = "ok"
             /\ class = "UPDATE" => ov = "ok"
             /\ class = "CREATE" /\ ov # "ok" => op = "ok"
             /\ faults + Cost(ov) + Cost(op) <= MaxFaults
             /\ faults' = faults + Cost(ov) + Cost(op)
             /\ outcome' = Append(outcome, class)
             /\ IF class = "UPDATE"
                THEN LET record_id == target_lookup[source_key].id
                     IN  \* update_a_record: PATCH record/{record_id}; a listed
                         \* record has an id, so "record_id and ..." calls
                         /\ calls' = Append(calls,
                                [op |-> "update", idx |-> idx,
                                 key |-> source_key, id |-> record_id,
                                 address |-> source_ip,
                                 comment |-> new_comment, res |-> op])
                         /\ dns' = IF op = "fail" THEN dns
                                   ELSE UpdatedRecords(dns, record_id,
                                                       source_ip, new_comment)
                         /\ written' = IF op = "fail" THEN written
                                       ELSE written \cup
                                            {[id |-> record_id,
                                              from |-> pass.source_view]}
                         /\ next_id' = next_id
                         /\ synced_count' = Counted(synced_count, op)
                         /\ pc' = AfterCall(op)
                ELSE IF class = "CREATE"
                THEN LET view_id == GetViewId(pass.target_view, ov)
                         res     == IF ov = "raise" THEN "raise"
                                    ELSE IF view_id = <<>> THEN "fail"
                                    ELSE op
                         posted  == view_id # <<>> /\ res # "fail"
                     IN  \* create_a_record: get_view_id, then POST record
                         /\ calls' = Append(calls,
                                [op |-> "create", idx |-> idx,
                                 key |-> source_key,
                                 id |-> IF posted THEN next_id ELSE 0,
                                 address |-> source_ip,
                                 comment |-> new_comment, res |-> res])
                         /\ dns' = IF posted
                                   THEN Append(dns,
                                          CreatedRecord(next_id, view_id,
                                            AbsoluteName(source_key, zone_name),
                                            source_ip, new_comment))
                                   ELSE dns
                         /\ written' = IF posted
                                       THEN written \cup
                                            {[id |-> next_id,
                                              from |-> pass.source_view]}
                                       ELSE written
                         /\ next_id' = IF posted THEN next_id + 1 ELSE next_id
                         /\ synced_count' = Counted(synced_count, res)
                         /\ pc' = AfterCall(res)
                ELSE /\ UNCHANGED <<calls, dns, next_id, synced_count, written>>
                     /\ pc' = "loop"
    /\ idx' = idx + 1
    /\ UNCHANGED <<config, now, run, pass, source_records, target_lookup,
                   count1, summary, fetched, pre, prev, started, ncalls>>

\* the loop is over: return synced_count
ReturnPass ==
    /\ pc = "loop"
    /\ idx > Len(source_records)
    /\ pc' = "returned"
    /\ UNCHANGED <<config, dns, next_id, now, run, pass, source_records,
                   target_lookup, idx, synced_count, count1, summary, fetched,
                   calls, outcome, pre, prev, started, written, faults,
                   ncalls>>

-----------------------------------------------------------------------------
(* run_sync and the invocations *)

\* nothing is executing: a new invocation may begin
Idle == pc \in {"idle", "done", "raised"} \/ (pc = "returned" /\ run = "none")

\* run_sync: the first pass, source_view -> target_view
RunSync ==
    /\ Idle
    /\ ncalls < MaxCalls
    /\ ncalls' = ncalls + 1
    /\ run' = "pass1"
    /\ count1' = -1
    /\ summary' = <<>>
    /\ started' = {1}
    /\ EnterPass(config.source_view, config.target_view)

\* variant: the second pass runs in the first pass's direction
RunSyncSecond_SameDirection ==
    /\ pc = "returned"
    /\ run = "pass1"
    /\ run' = "pass2"
    /\ count1' = synced_count
    /\ started' = started \cup {2}
    /\ EnterPass(config.source_view, config.target_view)
    /\ UNCHANGED <<summary, ncalls>>

\* run_sync: count1 is assigned, the second pass, target_view -> source_view
RunSyncSecond ==
    /\ pc = "returned"
    /\ run = "pass1"
    /\ run' = "pass2"
    /\ count1' = synced_count
    /\ started' = started \cup {2}
    /\ EnterPass(config.target_view, config.source_view)
    /\ UNCHANGED <<summary, ncalls>>

\* run_sync: count2 is assigned and the totals are logged
RunSyncFinish ==
    /\ pc = "returned"
    /\ run = "pass2"
    /\ pc' = "done"
    /\ summary' = <<count1, synced_count, count1 + synced_count>>
    /\ UNCHANGED <<config, dns, next_id, now, run, pass, source_records,
                   target_lookup, idx, synced_count, count1, fetched, calls,
                   outcome, pre, prev, started, written, faults, ncalls>>

\* sync_records_one_way called on its own, in either direction
CallOneWay ==
    /\ Idle
    /\ ncalls < MaxCalls
    /\ ncalls' = ncalls + 1
    /\ run' = "none"
    /\ started' = {}
    /\ \E d \in {<<config.source_view, config.target_view>>,
                 <<config.target_view, config.source_view>>} :
          EnterPass(d[1], d[2])
    /\ UNCHANGED <<count1, summary>>

-----------------------------------------------------------------------------
(* Initial states: any contents of the two views with one record per key.  *)
(* Addresses are only ever compared with each other, so the first record's *)
(* address is fixed.                                                       *)

Slots == << <<1, Apex>>, <<1, <<"h">> >>, <<2, Apex>>, <<2, <<"h">> >> >>

\* a comment without marker, a marker of either view
InitComments(cfg, name) ==
    { IF name = Apex THEN <<>> ELSE <<"manual">>,
      GetSyncMarker(cfg.source_view, 0, <<>>),
      GetSyncMarker(cfg.target_view, 0, <<"c">>) }

Absent == [address |-> "", comment |-> <<>>]

InitChoices(cfg) ==
    { f \in [DOMAIN Slots -> {Absent} \cup [address : Addresses,
                                            comment : UNION {InitComments(cfg, n) : n \in Names}]] :
        /\ \A j \in DOMAIN Slots :
              f[j] # Absent => f[j].comment \in InitComments(cfg, Slots[j][2])
        /\ \A j \in DOMAIN Slots :
              (f[j] # Absent /\ \A i \in 1..(j - 1) : f[i] = Absent)
                  => f[j].address = "10.0.0.1" }

InitRecords(cfg, f) ==
    LET Present(r) == r.address # ""
        all == [j \in DOMAIN Slots |->
                  [id           |-> j,
                   view_name    |-> IF Slots[j][1] = 1 THEN cfg.source_view
                                    ELSE cfg.target_view,
                   name_in_zone |-> Slots[j][2],
                   address      |-> f[j].address,
                   comment      |-> f[j].comment,
                   created_at   |-> <<"c">>]]
    IN  SelectSeq(all, Present)

Init ==
    /\ config \in ViewConfigs
    /\ \E f \in InitChoices(config) : dns = InitRecords(config, f)
    /\ next_id = Len(Slots) + 1
    /\ now = 0
    /\ pc = "idle"
    /\ run = "none"
    /\ pass = NoPass
    /\ source_records = <<>>
    /\ target_lookup = <<>>
    /\ idx = 1
    /\ synced_count = 0
    /\ count1 = -1
    /\ summary = <<>>
    /\ fetched = <<"none", "none">>
    /\ calls = <<>>
    /\ outcome = <<>>
    /\ pre = <<>>
    /\ prev = [valid |-> FALSE, source_view |-> <<>>, target_view |-> <<>>,
               returned |-> FALSE, fetched |-> <<"none", "none">>,
               calls |-> <<>>, keys |-> <<>>, outcome |-> <<>>,
               synced_count |-> 0, after_clean |-> FALSE, failed |-> {},
               before |-> [valid |-> FALSE, source_view |-> <<>>,
                           failed |-> {}]]
    /\ written = {}
    /\ started = {}
    /\ faults = 0
    /\ ncalls = 0

Next ==
    \/ RunSync
    \/ RunSyncSecond
    \/ RunSyncFinish
    \/ CallOneWay
    \/ ProcessRecord
    \/ ReturnPass

Spec == Init /\ [][Next]_vars

-----------------------------------------------------------------------------
(* Properties *)

Range(q) == {q[j] : j \in DOMAIN q}

RecordsOf(d, view_name) == {r \in Range(d) : r.view_name = view_name}

\* the comment carries a provenance tag, of whatever view
HasMarker(comment) == Contains(comment, <<"Synced from ">>)

\* the comments the encoder produces for a view
EncodedFor(view_name) ==
    {GetSyncMarker(view_name, t, c) : t \in 0..now, c \in {<<>>, <<"c">>}}

OkCalls(cs) == {k \in DOMAIN cs : cs[k].res = "ok"}

CallsFor(j) == {k \in DOMAIN calls : calls[k].idx = j}

Processed == {j \in DOMAIN source_records : j < idx}

BothListed(f) == f = <<"ok", "ok">>

\* C1: a source record whose comment the encoder produced for the target view
\* is skipped: the pass makes no create and no update call for it, whether
\* or not the target holds its key and whatever the addresses are.
C1_LoopSafety ==
    \A j \in DOMAIN source_records :
        source_records[j].comment \in EncodedFor(pass.target_view)
            => /\ CallsFor(j) = {}
               /\ j \in Processed => outcome[j] = "SKIP"

\* a record marked for the target view has been passed over although the
\* target lacks its key
C1_Witness ==
    \E j \in Processed :
        /\ source_records[j].comment \in EncodedFor(pass.target_view)
        /\ BothListed(fetched)
        /\ ExtractRecordKey(source_records[j]) \notin DOMAIN target_lookup

\* C2: when both views hold a key with different addresses and neither
\* comment carries a marker, the pass makes no create and no update call for
\* the key and both records are as they were.
C2_ConflictDetection ==
    \A s \in RecordsOf(pre, pass.source_view) :
        \A t \in RecordsOf(pre, pass.target_view) :
            ( /\ ExtractRecordKey(s) = ExtractRecordKey(t)
              /\ s.address # t.address
              /\ ~HasMarker(s.comment)
              /\ ~HasMarker(t.comment) )
                => /\ \A k \in DOMAIN calls : calls[k].key # ExtractRecordKey(s)
                   /\ s \in Range(dns)
                   /\ t \in Range(dns)

\* C3: an update call is made on a target record only if that record's
\* comment carries the marker of the source view and its address differs
\* from the source record's; a target record without that marker is left as
\* it was.
C3_NoSilentOverwrite ==
    /\ \A k \in DOMAIN calls :
          calls[k].op = "update"
              => \E t \in RecordsOf(pre, pass.target_view) :
                    /\ t.id = calls[k].id
                    /\ IsSyncedFromView(t.comment, pass.source_view)
                    /\ t.address # calls[k].address
                    /\ calls[k].address = source_records[calls[k].idx].address
    /\ \A t \in RecordsOf(pre, pass.target_view) :
          ~IsSyncedFromView(t.comment, pass.source_view) => t \in Range(dns)

\* one pass has updated a record and found a conflict on another
C3_Witness ==
    /\ \E k \in OkCalls(calls) : calls[k].op = "update"
    /\ \E j \in Processed : outcome[j] = "CONFLICT"

\* the pass before this one ran in the same direction
SameDirectionAgain ==
    /\ prev.valid
    /\ prev.source_view = pass.source_view
    /\ prev.target_view = pass.target_view

\* C4 as stated: the second of two passes in the same direction makes no
\* create and no update call.  (Stated for two passes that made their
\* listings and of which the first returned.)
C4_Idempotence ==
    ( /\ SameDirectionAgain
      /\ prev.returned
      /\ BothListed(prev.fetched)
      /\ BothListed(fetched) )
        => calls = <<>>

\* C4 amended: when every request of the first pass succeeded and the first
\* pass returned, and the listings of the second pass succeed, the second
\* pass makes no create and no update call.
C4_IdempotenceAfterCleanPass ==
    ( /\ SameDirectionAgain
      /\ prev.returned
      /\ BothListed(prev.fetched)
      /\ AllOk(prev.calls)
      /\ BothListed(fetched) )
        => /\ calls = <<>>
           /\ \A j \in Processed : outcome[j] \in {"SKIP", "NOOP", "CONFLICT"}

\* the first pass created one record and updated another, and the second
\* pass in the same direction has gone through all source records
C4_Witness ==
    /\ SameDirectionAgain
    /\ prev.returned
    /\ BothListed(prev.fetched)
    /\ AllOk(prev.calls)
    /\ \E k \in DOMAIN prev.calls : prev.calls[k].op = "create"
    /\ \E k \in DOMAIN prev.calls : prev.calls[k].op = "update"
    /\ BothListed(fetched)
    /\ pc = "returned"
    /\ Len(source_records) = 2

\* ids of the records the previous pass wrote
WrittenBefore == {prev.calls[k].id : k \in OkCalls(prev.calls)}

\* C5: run_sync runs source_view -> target_view first and starts
\* target_view -> source_view only when the first pass has returned; the
\* second pass lists the records the first pass wrote, skips each of them and
\* makes no create or update call for any of them.
C5_PassOrder ==
    /\ run = "pass1"
          => /\ started = {1}
             /\ pass = [source_view |-> config.source_view,
                        target_view |-> config.target_view]
    /\ run = "pass2"
          => /\ started = {1, 2}
             /\ pass = [source_view |-> config.target_view,
                        target_view |-> config.source_view]
             /\ prev.valid
             /\ prev.returned
             /\ prev.source_view = config.source_view
             /\ prev.target_view = config.target_view
             /\ count1 = Cardinality(OkCalls(prev.calls))
             /\ fetched[1] = "ok"
                   => \A k \in OkCalls(prev.calls) :
                         \E j \in DOMAIN source_records :
                            /\ source_records[j].id = prev.calls[k].id
                            /\ source_records[j].address = prev.calls[k].address
                            /\ source_records[j].comment = prev.calls[k].comment
                            /\ j \in Processed => outcome[j] = "SKIP"
             /\ \A k \in DOMAIN calls :
                   source_records[calls[k].idx].id \notin WrittenBefore

\* a run whose first pass created a record and updated another and whose
\* second pass listed them and wrote something itself
C5_Witness ==
    /\ run = "pass2"
    /\ pc = "done"
    /\ fetched[1] = "ok"
    /\ \E k \in OkCalls(prev.calls) : prev.calls[k].op = "create"
    /\ \E k \in OkCalls(prev.calls) : prev.calls[k].op = "update"
    /\ Len(source_records) = 2

\* C6: when a listing of the pass failed, the pass makes no create and no
\* update call.
C6_FetchFailureAborts ==
    "fail" \in {fetched[1], fetched[2]} => calls = <<>>

\* C7: when the first pass of run_sync ended in an exception, run_sync has
\* started the reverse pass by the time it ends.
C7_IndependentDirections ==
    (pc = "raised" /\ run = "pass1") => 2 \in started

\* C8: a call that returns False does not end the pass: every source record
\* is gone through, in list order, each record that is to be created or
\* updated gets its call, and synced_count counts the calls that succeeded.
C8_PerRecordFailuresNonFatal ==
    pc \in {"loop", "returned", "done"}
        => /\ Len(outcome) = idx - 1
           /\ idx - 1 <= Len(source_records)
           /\ pc # "loop" => Len(outcome) = Len(source_records)
           /\ \A j \in DOMAIN outcome :
                 outcome[j] \in {"CREATE", "UPDATE"} <=> CallsFor(j) # {}
           /\ \A k1, k2 \in DOMAIN calls :
                 k1 < k2 => calls[k1].idx < calls[k2].idx
           /\ synced_count = Cardinality(OkCalls(calls))

\* a pass returned after a call that failed for the first record and a call
\* that succeeded for the second
C8_Witness ==
    /\ pc = "returned"
    /\ Len(calls) = 2
    /\ calls[1].res = "fail"
    /\ calls[2].res = "ok"
    /\ synced_count = 1

\* C9: for a source record that is not loop-guarded and whose key the target
\* view does not hold, the pass makes exactly one call, a create with the
\* record's key and address and a comment that IsSyncedFromView the source
\* view; when the call succeeds the target view holds that record and the
\* record is counted.
C9_CreationPath ==
    /\ \A j \in Processed :
          LET s == source_records[j]
          IN  ( /\ ~IsSyncedFromView(s.comment, pass.target_view)
                /\ \A t \in RecordsOf(pre, pass.target_view) :
                      ExtractRecordKey(t) # ExtractRecordKey(s) )
                  => /\ Cardinality(CallsFor(j)) = 1
                     /\ \A k \in CallsFor(j) :
                           /\ calls[k].op = "create"
                           /\ calls[k].key = ExtractRecordKey(s)
                           /\ calls[k].address = s.address
                           /\ IsSyncedFromView(calls[k].comment,
                                               pass.source_view)
                           /\ calls[k].res = "ok"
                                 => \E r \in RecordsOf(dns, pass.target_view) :
                                       /\ r.id = calls[k].id
                                       /\ ExtractRecordKey(r) = calls[k].key
                                       /\ r.address = s.address
                                       /\ r.comment = calls[k].comment
    /\ synced_count = Cardinality(OkCalls(calls))

\* the apex record of the source has been created in a target that held no
\* apex record
C9_Witness ==
    \E k \in OkCalls(calls) :
        /\ calls[k].op = "create"
        /\ calls[k].key = <<"@">>
        /\ BothListed(fetched)

\* C10: for a source record that is not loop-guarded and whose key the
\* lookup holds with a different address and a comment carrying the marker
\* of the source view, the pass makes exactly one call, an update of the
\* target record's id with the source address and a marker of the source
\* view made in this pass; when the call succeeds the target record has that
\* address and comment and the record is counted.
C10_LineageGatedUpdate ==
    /\ \A j \in Processed :
          LET s == source_records[j]
              key == ExtractRecordKey(s)
          IN  ( /\ ~IsSyncedFromView(s.comment, pass.target_view)
                /\ key \in DOMAIN target_lookup
                /\ target_lookup[key].address # s.address
                /\ IsSyncedFromView(target_lookup[key].comment,
                                    pass.source_view) )
                  => /\ Cardinality(CallsFor(j)) = 1
                     /\ \A k \in CallsFor(j) :
                           /\ calls[k].op = "update"
                           /\ calls[k].id = target_lookup[key].id
                           /\ calls[k].address = s.address
                           /\ calls[k].comment \in EncodedFor(pass.source_view)
                           /\ Contains(calls[k].comment, <<" on ", ToString(now)>>)
                           /\ calls[k].comment # target_lookup[key].comment
                           /\ calls[k].res = "ok"
                                 => \E r \in RecordsOf(dns, pass.target_view) :
                                       /\ r.id = target_lookup[key].id
                                       /\ r.name_in_zone =
                                              target_lookup[key].name_in_zone
                                       /\ r.address = s.address
                                       /\ r.comment = calls[k].comment
    /\ synced_count = Cardinality(OkCalls(calls))

\* a target record of the source's lineage has been updated
C10_Witness ==
    \E k \in OkCalls(calls) :
        /\ calls[k].op = "update"
        /\ \E t \in RecordsOf(pre, pass.target_view) :
              t.id = calls[k].id /\ t.address # calls[k].address

-----------------------------------------------------------------------------
(* The marker codec *)

Views == {config.source_view, config.target_view}

\* the created timestamps a source record can carry: none, or one
CreatedStamps == {<<>>, <<"c">>}

\* C11: a marker the encoder produced for one view is recognised as synced
\* from a view exactly when the two views are the same, also when one view's
\* name begins with the other's; an empty comment is synced from no view.
C11_CodecExact ==
    \A Y \in Views :
        /\ ~IsSyncedFromView(<<>>, Y)
        /\ \A X \in Views : \A t \in 0..now : \A c \in CreatedStamps :
              IsSyncedFromView(GetSyncMarker(X, t, c), Y) <=> X = Y

-----------------------------------------------------------------------------
(* Markers on the records the passes write *)

\* C12: the comment of every create and every update call of a pass is the
\* marker made at that write for the pass's source view: the tag, the source
\* view's name, the time of the write and the source record's created
\* timestamp; and every record a pass has written lies in the other view
\* than the one it was copied from and its comment is recognised as synced
\* from the view it was copied from.
C12_MarkerOnWrite ==
    /\ \A k \in DOMAIN calls :
          /\ calls[k].comment =
                <<"Synced from ">> \o pass.source_view
                    \o <<" on ", ToString(now)>>
                    \o (IF source_records[calls[k].idx].created_at = <<>>
                        THEN <<>>
                        ELSE <<", created: ">>
                                \o source_records[calls[k].idx].created_at)
          /\ IsSyncedFromView(calls[k].comment, pass.source_view)
    /\ \A w \in written :
          /\ \E r \in Range(dns) : r.id = w.id
          /\ \A r \in Range(dns) :
                r.id = w.id => /\ r.view_name # w.from
                               /\ IsSyncedFromView(r.comment, w.from)

\* passes in both directions have written records, one by a create and one
\* by an update
C12_Witness ==
    /\ \E w1, w2 \in written : w1.from # w2.from
    /\ \E k \in OkCalls(calls) : calls[k].op = "update"
    /\ \E k \in OkCalls(prev.calls) : prev.calls[k].op = "create"

-----------------------------------------------------------------------------
(* What a pass may do to the views *)

Ids(d, view_name) == {r.id : r \in RecordsOf(d, view_name)}

\* C13: no step removes a record: the set of record ids of each view never
\* shrinks, and the only calls a pass makes besides its listings are creates
\* and updates.
C13_NoDeletion ==
    /\ [][\A v \in Views : Ids(dns, v) \subseteq Ids(dns', v)]_vars
    /\ [](\A k \in DOMAIN calls : calls[k].op \in {"create", "update"})

\* a pass has created a record and updated another, and every record of
\* before the pass is still in its view
C13_Witness ==
    /\ \E k \in OkCalls(calls) : calls[k].op = "create"
    /\ \E k \in OkCalls(calls) : calls[k].op = "update"
    /\ \A v \in Views : Ids(pre, v) \subseteq Ids(dns, v)

-----------------------------------------------------------------------------
(* Keys *)

\* C14: a record with an empty name_in_zone has the key "@"; and in a pass
\* that listed both views, a source record with an empty name, when the
\* target view held a record with an empty name, is found in the lookup
\* under "@": it is never created, and when it is not loop-guarded and the
\* addresses are equal it is a no-op without any call.
C14_KeyNormalization ==
    /\ \A r \in Range(dns) :
          r.name_in_zone = <<>> => ExtractRecordKey(r) = <<"@">>
    /\ BothListed(fetched) =>
          \A j \in Processed :
              LET s == source_records[j]
              IN  ( /\ s.name_in_zone = <<>>
                    /\ \E t \in RecordsOf(pre, pass.target_view) :
                          t.name_in_zone = <<>> )
                      => /\ <<"@">> \in DOMAIN target_lookup
                         /\ ExtractRecordKey(target_lookup[<<"@">>]) = <<"@">>
                         /\ outcome[j] # "CREATE"
                         /\ \A k \in CallsFor(j) : calls[k].op # "create"
                         /\ ( /\ ~IsSyncedFromView(s.comment, pass.target_view)
                              /\ target_lookup[<<"@">>].address = s.address )
                                => /\ outcome[j] = "NOOP"
                                   /\ CallsFor(j) = {}

\* an apex record of the source met the apex record of the target with the
\* same address, and the pass passed it over as in sync
C14_Witness ==
    /\ BothListed(fetched)
    /\ \E j \in Processed :
          /\ source_records[j].name_in_zone = <<>>
          /\ outcome[j] = "NOOP"
          /\ \E t \in RecordsOf(pre, pass.target_view) :
                /\ t.name_in_zone = <<>>
                /\ t.address = source_records[j].address
          /\ Cardinality({r \in RecordsOf(dns, pass.target_view) :
                            ExtractRecordKey(r) = <<"@">>}) = 1

-----------------------------------------------------------------------------
(* What a pass returns *)

Conflicts(o) == {j \in DOMAIN o : o[j] = "CONFLICT"}

\* C15 as stated: what a directional pass returns reports the number of
\* source records it classified CONFLICT: two passes that return the same
\* result have found the same number of conflicts.
C15_ConflictsInResult ==
    ( /\ pc = "returned"
      /\ prev.returned
      /\ prev.synced_count = synced_count )
        => Cardinality(Conflicts(prev.outcome)) = Cardinality(Conflicts(outcome))

\* C15 amended: a directional pass returns one number, the count of its
\* create and update calls that succeeded; a record classified CONFLICT gets
\* no call and adds nothing to it, nor do skipped and in-sync records; and
\* the summary of a run holds the two passes' numbers and their sum.
C15_ResultIsSyncedCount ==
    /\ synced_count = Cardinality(OkCalls(calls))
    /\ \A j \in Processed :
          outcome[j] \in {"CONFLICT", "SKIP", "NOOP"} => CallsFor(j) = {}
    /\ pc = "done" =>
          /\ summary = <<count1, synced_count, count1 + synced_count>>
          /\ count1 = prev.synced_count

\* a pass has returned 1 having found a conflict, after a pass that returned
\* 1 having found none
C15_Witness ==
    /\ pc = "returned"
    /\ prev.returned
    /\ synced_count = 1
    /\ prev.synced_count = 1
    /\ Conflicts(outcome) # {}
    /\ Conflicts(prev.outcome) = {}

-----------------------------------------------------------------------------
(* After one run in both directions *)

KeysOf(d, view_name) == {ExtractRecordKey(r) : r \in RecordsOf(d, view_name)}

UniqueKeys(d) ==
    \A i, j \in DOMAIN d :
        ( /\ d[i].view_name = d[j].view_name
          /\ ExtractRecordKey(d[i]) = ExtractRecordKey(d[j]) ) => i = j

\* run_sync has ended, every request of its two passes succeeded, and no
\* view holds a key twice
CleanRunDone ==
    /\ pc = "done"
    /\ BothListed(prev.fetched)
    /\ AllOk(prev.calls)
    /\ BothListed(fetched)
    /\ AllOk(calls)
    /\ UniqueKeys(dns)

\* one of the two passes of the run classified the key CONFLICT
ConflictReported(key) ==
    \/ \E j \in DOMAIN outcome :
          outcome[j] = "CONFLICT" /\ ExtractRecordKey(source_records[j]) = key
    \/ \E j \in DOMAIN prev.outcome :
          prev.outcome[j] = "CONFLICT" /\ prev.keys[j] = key

\* the two views' records of a key differ in address
Diverged(a, b) ==
    /\ a.view_name = config.source_view
    /\ b.view_name = config.target_view
    /\ ExtractRecordKey(a) = ExtractRecordKey(b)
    /\ a.address # b.address

\* each of the two records is recognised as synced from the other's view
BothGuarded(a, b) ==
    /\ IsSyncedFromView(a.comment, b.view_name)
    /\ IsSyncedFromView(b.comment, a.view_name)

\* C16 as stated: after a run whose requests all succeeded, every key held
\* by both views has the same address in both or was classified CONFLICT by
\* one of the two passes.
C16_EventualConsistency ==
    CleanRunDone =>
        \A a, b \in Range(dns) :
            Diverged(a, b) => ConflictReported(ExtractRecordKey(a))

\* C16 amended: after such a run, every key held by both views has the same
\* address in both, or was classified CONFLICT by one of the two passes, or
\* each of its two records carries the marker of the other view.
C16_ConsistentOrReportedOrGuarded ==
    CleanRunDone =>
        \A a, b \in Range(dns) :
            Diverged(a, b) =>
                \/ ConflictReported(ExtractRecordKey(a))
                \/ BothGuarded(a, b)

\* a run has ended clean in which one key was brought to the same address by
\* an update and the other key was reported as a conflict
C16_Witness ==
    /\ CleanRunDone
    /\ \E a, b \in Range(dns) :
          Diverged(a, b) /\ ConflictReported(ExtractRecordKey(a))
    /\ \/ \E k \in DOMAIN calls : calls[k].op = "update"
       \/ \E k \in DOMAIN prev.calls : prev.calls[k].op = "update"

\* the view of the configuration that is not view_name
OtherView(view_name) ==
    IF view_name = config.source_view
    THEN config.target_view
    ELSE config.source_view

\* C17 as stated: after a run whose requests all succeeded, every key held
\* by one of the views is held by both.
C17_AbsenceHealed ==
    CleanRunDone =>
        KeysOf(dns, config.source_view) = KeysOf(dns, config.target_view)

\* C17 amended: after such a run, every key of a record that does not carry
\* the marker of the other view is held by both views.
C17_AbsenceOfUnguardedHealed ==
    CleanRunDone =>
        \A r \in Range(dns) :
            ~IsSyncedFromView(r.comment, OtherView(r.view_name))
                => ExtractRecordKey(r) \in KeysOf(dns, OtherView(r.view_name))

\* a run has ended clean in which each pass created a record the other view
\* lacked
C17_Witness ==
    /\ CleanRunDone
    /\ \E k \in DOMAIN calls : calls[k].op = "create"
    /\ \E k \in DOMAIN prev.calls : prev.calls[k].op = "create"

-----------------------------------------------------------------------------
(* Frames of a pass *)

\* the source record at position j is not loop-guarded and the lookup holds
\* its key with the same address
InSync(j) ==
    LET s == source_records[j]
    IN  /\ ~IsSyncedFromView(s.comment, pass.target_view)
        /\ ExtractRecordKey(s) \in DOMAIN target_lookup
        /\ target_lookup[ExtractRecordKey(s)].address = s.address

\* C18: the step of the loop on a source record that is not loop-guarded and
\* whose key the lookup holds with the same address makes no call, leaves
\* every record as it is, the target's address and comment included, and
\* leaves synced_count as it is, whatever the two comments are.
C18_NoopOnEqualAddress ==
    [][ ( /\ pc = "loop"
          /\ idx <= Len(source_records)
          /\ InSync(idx) )
            => /\ outcome' = Append(outcome, "NOOP")
               /\ calls' = calls
               /\ dns' = dns
               /\ synced_count' = synced_count ]_vars

\* a source record has been passed over as in sync with a target record that
\* carries the source view's marker; that record still has its old comment
C18_Witness ==
    \E j \in Processed :
        /\ InSync(j)
        /\ outcome[j] = "NOOP"
        /\ CallsFor(j) = {}
        /\ IsSyncedFromView(target_lookup[ExtractRecordKey(source_records[j])].comment,
                            pass.source_view)
        /\ target_lookup[ExtractRecordKey(source_records[j])] \in Range(dns)

\* the pass before this one classified the key CONFLICT
ConflictBefore(key) ==
    /\ prev.valid
    /\ \E j \in DOMAIN prev.outcome :
          prev.outcome[j] = "CONFLICT" /\ prev.keys[j] = key

\* C19: a key that a pass classified CONFLICT gets no create and no update
\* call in the pass after it, and when that pass has listed both views and
\* gone through its source records it has classified the key CONFLICT again.
C19_ConflictTerminal ==
    \A key \in {ExtractRecordKey([name_in_zone |-> n]) : n \in Names} :
        ConflictBefore(key)
            => /\ \A k \in DOMAIN calls : calls[k].key # key
               /\ ( /\ BothListed(fetched)
                    /\ pc \in {"returned", "done"} )
                      => \E j \in DOMAIN outcome :
                            /\ outcome[j] = "CONFLICT"
                            /\ ExtractRecordKey(source_records[j]) = key

\* the records of a view, in the order of the service
ViewRecords(d, view_name) ==
    LET InView(r) == r.view_name = view_name
    IN  SelectSeq(d, InView)

\* C20: a pass leaves the source view as it found it: the records of the
\* source view, with their addresses and comments, are those of the start of
\* the pass; every update call is on a record that the target view held at
\* the start of the pass, and every record created lies in the target view.
C20_SourceReadOnly ==
    pass # NoPass =>
        /\ ViewRecords(dns, pass.source_view) = ViewRecords(pre, pass.source_view)
        /\ \A k \in DOMAIN calls :
              calls[k].op = "update"
                  => calls[k].id \in Ids(pre, pass.target_view)
        /\ \A r \in Range(dns) :
              r \notin Range(pre) => r.view_name = pass.target_view

\* a pass has created a record and updated another while the source view
\* held records
C20_Witness ==
    /\ \E k \in OkCalls(calls) : calls[k].op = "create"
    /\ \E k \in OkCalls(calls) : calls[k].op = "update"
    /\ Len(ViewRecords(dns, pass.source_view)) = 2
    /\ ViewRecords(dns, pass.source_view) = ViewRecords(pre, pass.source_view)

-----------------------------------------------------------------------------
(* Runs after a clean run *)

\* C21: once a run_sync has ended in which every request succeeded, on views
\* without a key held twice, no pass of a later run_sync makes a create or
\* an update call.
C21_Quiescence ==
    ( /\ prev.after_clean
      /\ run \in {"pass1", "pass2"} )
        => calls = <<>>

-----------------------------------------------------------------------------
(* Writes that failed *)

\* the writes that returned False in the last pass before this one that ran
\* in this pass's direction: the pass before, or the one before that when the
\* pass before ran the other way
FailedLastTime ==
    IF prev.valid /\ prev.source_view = pass.source_view
    THEN prev.failed
    ELSE IF /\ prev.valid
            /\ prev.before.valid
            /\ prev.before.source_view = pass.source_view
    THEN prev.before.failed
    ELSE {}

\* the pass has listed both views and gone through its source records
PassCompleted ==
    /\ pass # NoPass
    /\ pc \in {"returned", "done"}
    /\ BothListed(fetched)

\* the target view holds the address under the key
PresentInTarget(key, address) ==
    \E t \in RecordsOf(dns, pass.target_view) :
        ExtractRecordKey(t) = key /\ t.address = address

\* C22: a create or update call that returned False is made again, with the
\* same operation, key and address, by the next pass in the same direction
\* that lists both views and goes through its records; and after a pass all
\* of whose requests succeeded, the address of every source record that was
\* neither loop-guarded nor in conflict is in the target view under its key.
C22_FailedWritesRetried ==
    PassCompleted =>
        /\ \A f \in FailedLastTime :
              \E k \in DOMAIN calls :
                  /\ calls[k].op = f.op
                  /\ calls[k].key = f.key
                  /\ calls[k].address = f.address
                  /\ calls[k].res = "ok" => PresentInTarget(f.key, f.address)
        /\ AllOk(calls) =>
              \A j \in DOMAIN outcome :
                  outcome[j] \notin {"SKIP", "CONFLICT"}
                      => PresentInTarget(ExtractRecordKey(source_records[j]),
                                         source_records[j].address)

\* an update that returned False in the first run has been made again by the
\* same pass of the second run, after the reverse pass, and has succeeded
C22_Witness ==
    /\ PassCompleted
    /\ prev.valid
    /\ prev.source_view # pass.source_view
    /\ \E f \in FailedLastTime :
          /\ f.op = "update"
          /\ \E k \in OkCalls(calls) :
                calls[k].op = "update" /\ calls[k].key = f.key
          /\ PresentInTarget(f.key, f.address)

-----------------------------------------------------------------------------
(* Creation at the apex *)

\* C23: the create call made for a source record with an empty name_in_zone
\* posts the zone name itself as absolute_name_spec, and the record the
\* service creates for it has an empty name_in_zone again.
C23_ApexCreation ==
    \A k \in DOMAIN calls :
        ( /\ calls[k].op = "create"
          /\ source_records[calls[k].idx].name_in_zone = Apex )
            => /\ AbsoluteName(calls[k].key, zone_name) = zone_name
               /\ \A r \in Range(dns) :
                     r.id = calls[k].id => r.name_in_zone = Apex

====
